---- MODULE Spec2Model ----
(***************************************************************************)
(* State-machine model of dod_spending.py: the application shell           *)
(* (SearchApplication), the per-query orchestrator (PDFSearcher) with its  *)
(* nested thread pools and shared lock, the report writer (FileHandler)    *)
(* and the retry policy mounted on the session (SessionManager).           *)
(*                                                                         *)
(* Python strings are TLA+ strings; characters are compared by position in *)
(* Alphabet, which lists the characters the model uses in code-point order.*)
(***************************************************************************)
EXTENDS Integers, Sequences, FiniteSets, TLC

\* ------------------------------------------------------------------------
\* Bounds of the model (not program constants)
\* ------------------------------------------------------------------------
\* number of URLs the search provider holds for one query
MaxResults == 6

\* ------------------------------------------------------------------------
\* Config (dod_spending.py:22-31)
\* ------------------------------------------------------------------------
max_retries == 3
retry_status_codes == {429, 500, 502, 503, 504}
search_results_limit == 15
max_workers == 5

\* ------------------------------------------------------------------------
\* str operations
\* ------------------------------------------------------------------------
Alphabet == " ./:abcdefghijklmnopqrstuvwxyz"

Ch(s, i) == SubSeq(s, i, i)

Code(c) == CHOOSE i \in 1..Len(Alphabet) : Ch(Alphabet, i) = c

Min(a, b) == IF a < b THEN a ELSE b

\* str.__lt__ : lexicographic by code point, a proper prefix is smaller
StrLess(a, b) ==
    \E i \in 1..Len(b) :
        /\ i - 1 <= Len(a)
        /\ SubSeq(a, 1, i - 1) = SubSeq(b, 1, i - 1)
        /\ \/ i > Len(a)
           \/ Code(Ch(a, i)) < Code(Ch(b, i))

RECURSIVE sorted_descending(_)
\* variant: the list in descending order
sorted_descending(S) ==
    IF S = {} THEN <<>>
    ELSE LET m == CHOOSE e \in S : \A o \in S \ {e} : StrLess(o, e)
         IN  <<m>> \o sorted_descending(S \ {m})

RECURSIVE sorted(_)
\* sorted(iterable of str) -> list in ascending order
sorted(S) ==
    IF S = {} THEN <<>>
    ELSE LET m == CHOOSE e \in S : \A o \in S \ {e} : StrLess(e, o)
         IN  <<m>> \o sorted(S \ {m})

\* str.endswith
endswith(s, suffix) ==
    /\ Len(s) >= Len(suffix)
    /\ SubSeq(s, Len(s) - Len(suffix) + 1, Len(s)) = suffix

\* str.find: index of the first occurrence of the character c, 0 if none
find(s, c) ==
    IF \E i \in 1..Len(s) : Ch(s, i) = c
    THEN CHOOSE i \in 1..Len(s) : Ch(s, i) = c /\ \A j \in 1..(i - 1) : Ch(s, j) # c
    ELSE 0

\* q.split(":", 1): one or two fields
split(s) ==
    LET i == find(s, ":")
    IN  IF i = 0 THEN <<s>>
        ELSE <<SubSeq(s, 1, i - 1), SubSeq(s, i + 1, Len(s))>>

RECURSIVE strip(_)
\* str.strip(): drop leading and trailing blanks
strip(s) ==
    IF s = "" THEN s
    ELSE IF Ch(s, 1) = " " THEN strip(SubSeq(s, 2, Len(s)))
    ELSE IF Ch(s, Len(s)) = " " THEN strip(SubSeq(s, 1, Len(s) - 1))
    ELSE s

RECURSIVE rfind(_, _)
\* index of the last "/" of s among its first n characters, 0 if none
rfind(s, n) ==
    IF n = 0 THEN 0
    ELSE IF Ch(s, n) = "/" THEN n
    ELSE rfind(s, n - 1)

\* scheme://netloc of an absolute http URL (everything before the path)
Origin(u) ==
    LET rest == SubSeq(u, 8, Len(u))
        p    == find(rest, "/")
    IN  IF p = 0 THEN u ELSE SubSeq(u, 1, 7 + p - 1)

\* variant: the arguments of urljoin are swapped
urljoin_swapped(base, href) ==
    IF base = "" THEN href
    ELSE IF Len(base) >= 7 /\ SubSeq(base, 1, 7) = "http://" THEN base
    ELSE IF Ch(base, 1) = "/" THEN Origin(href) \o base
    ELSE SubSeq(href, 1, rfind(href, Len(href))) \o base

\* urllib.parse.urljoin(base, href) for an http base with a path and an
\* href without query, fragment or dot segments: an absolute href
\* replaces the base, a rooted href replaces the path, a relative href
\* replaces the last path segment.
urljoin(base, href) ==
    IF href = "" THEN base
    ELSE IF Len(href) >= 7 /\ SubSeq(href, 1, 7) = "http://" THEN href
    ELSE IF Ch(href, 1) = "/" THEN Origin(base) \o href
    ELSE SubSeq(base, 1, rfind(base, Len(base))) \o href

\* first n elements of a list
Take(s, n) == SubSeq(s, 1, Min(n, Len(s)))

\* the set of elements of a list
Range(s) == {s[i] : i \in 1..Len(s)}

RECURSIVE SelectPdf(_)
\* [h for h in hrefs if h.endswith(".pdf")]
SelectPdf(hrefs) ==
    IF hrefs = <<>> THEN <<>>
    ELSE (IF endswith(Head(hrefs), ".pdf") THEN <<Head(hrefs)>> ELSE <<>>)
         \o SelectPdf(Tail(hrefs))

\* ------------------------------------------------------------------------
\* The environment: search provider and HTTP endpoints (test doubles).
\* Each is a fixed function of its argument, so two runs see the same
\* answers whatever the scheduling.
\* ------------------------------------------------------------------------
PdfOk        == "http://x/a.pdf"
PdfDeep      == "http://x/d/a.pdf"
PdfGone      == "http://x/d/g.pdf"
PdfNoContent == "http://x/n.pdf"
PdfTimeout   == "http://x/t.pdf"
PdfBroken    == "http://x/e.pdf"
Page1        == "http://x/d/i"
Page2        == "http://x/d/j"
PageGone     == "http://x/m"
PageBad      == "http://x/v"
PageBroken   == "http://x/k"
Page3        == "http://x/q"
Page6        == "http://x/s"
\* the documents linked from Page6 that exist
Page6Pdfs    == {"http://x/b.pdf", "http://x/c.pdf", "http://x/f.pdf", "http://x/h.pdf"}

Response(code) == [kind |-> "response", status_code |-> code]
RequestException == [kind |-> "RequestException"]
OtherException == [kind |-> "Exception"]

\* self.session.head(url, timeout=..., allow_redirects=True): the final
\* response after redirects and retries, or the exception it raises
session_head(url) ==
    CASE url \in {PdfOk, PdfDeep, Page1, Page2, Page3, Page6} \cup Page6Pdfs -> Response(200)
      [] url = PdfNoContent       -> Response(204)
      [] url = PdfTimeout         -> RequestException
      [] url = PdfBroken          -> OtherException
      [] OTHER                    -> Response(404)

\* self.session.get(url, timeout=...): response or exception
session_get(url) ==
    CASE url \in {Page1, Page2, Page3, Page6, PageBad} -> Response(200)
      [] url = PageBroken                -> OtherException
      [] url = PdfTimeout                -> RequestException
      [] OTHER                           -> Response(404)

\* BeautifulSoup(response.text).find_all("a", href=True): the href of every
\* anchor of the page, in document order, or the ValueError parsing raises
find_all_href(url) ==
    CASE url = Page1   -> [kind |-> "ok", hrefs |-> <<"a.pdf", "/a.pdf", "p.html">>]
      [] url = Page2   -> [kind |-> "ok", hrefs |-> <<"a.pdf", "g.pdf">>]
      [] url = Page3   -> [kind |-> "ok", hrefs |-> <<"/e.pdf", "/a.pdf">>]
      [] url = Page6   -> [kind |-> "ok", hrefs |-> <<"/b.pdf", "/c.pdf", "/a.pdf", "/f.pdf",
                                                     "/h.pdf", "/l.pdf">>]
      [] url = PageBad -> [kind |-> "ValueError", hrefs |-> <<>>]
      [] OTHER         -> [kind |-> "ok", hrefs |-> <<>>]

\* DEFAULT_QUERIES: title, query
DEFAULT_QUERIES ==
    << <<"FY 2024 DoD Budget",
         "DoD budget FY 2024 spending filetype:pdf site:*.edu | site:*.org | site:*.gov -inurl:(signup | login)">>,
       <<"FY 2025 DoD Budget",
         "DoD budget FY 2025 spending filetype:pdf site:*.edu | site:*.org | site:*.gov -inurl:(signup | login)">>,
       <<"FY 2024/2025 DoD Vendor Spending",
         "DoD vendor spending FY 2024 OR FY 2025 filetype:pdf site:*.edu | site:*.org | site:*.gov -inurl:(signup | login)">> >>

\* what the provider holds for a query: the URLs its generator yields and
\* whether it raises ("no", at the call: "call", after the yields: "lazy")
Provider(query) ==
    CASE query = "x" -> [urls |-> <<Page1, Page2, PdfOk, PdfGone>>, raises |-> "no"]
      [] query = "y" -> [urls |-> <<PdfNoContent, PdfBroken, PdfTimeout, PdfGone>>, raises |-> "no"]
      [] query = "w" -> [urls |-> <<PageGone, PageBad, PageBroken, PdfTimeout>>, raises |-> "no"]
      [] query = "p" -> [urls |-> <<PdfOk, PdfOk, PdfGone, PdfDeep>>, raises |-> "no"]
      [] query = "z" -> [urls |-> <<PdfOk, PdfDeep>>, raises |-> "lazy"]
      [] query = "m" -> [urls |-> <<PdfBroken, Page3, PdfOk, PageBroken>>, raises |-> "no"]
      [] query = "s" -> [urls |-> <<Page6>>, raises |-> "no"]
      [] query = "u" -> [urls |-> <<PdfGone, PdfGone, PdfGone, PdfGone, PdfGone, PdfGone,
                                    PdfGone>>, raises |-> "no"]
      [] query = DEFAULT_QUERIES[1][2]
                     -> [urls |-> <<PdfDeep, PdfGone>>, raises |-> "no"]
      [] query = DEFAULT_QUERIES[2][2]
                     -> [urls |-> <<>>, raises |-> "call"]
      [] OTHER       -> [urls |-> <<>>, raises |-> "no"]

\* variant: a failure while the generator is consumed keeps what was yielded
search_keep_partial(query, n) ==
    LET p == Provider(query)
    IN  IF p.raises = "call" THEN [kind |-> "Exception", urls |-> <<>>]
        ELSE [kind |-> "ok", urls |-> Take(Take(p.urls, MaxResults), n)]

\* list(search(query, num_results=n)): the list, or the exception raised
\* while the generator is consumed
search(query, n) ==
    LET p == Provider(query)
    IN  IF p.raises # "no" THEN [kind |-> "Exception", urls |-> <<>>]
        ELSE [kind |-> "ok", urls |-> Take(Take(p.urls, MaxResults), n)]

\* command lines: the -q list and the -v flag
ArgSamples ==
    { [queries |-> <<>>,                   verbose |-> FALSE],
      [queries |-> <<"A:x">>,              verbose |-> TRUE],
      [queries |-> <<"A:x", "B:y">>,       verbose |-> FALSE],
      [queries |-> <<"B:y", "A: w ">>,     verbose |-> TRUE],
      [queries |-> <<"B:p", "A:z", "C:p">>, verbose |-> FALSE],
      [queries |-> <<"A:y", " A :p">>,     verbose |-> FALSE],
      [queries |-> <<"C:w:x">>,            verbose |-> FALSE],
      [queries |-> <<"nocolon">>,          verbose |-> FALSE],
      [queries |-> <<"B:y", "no colon", "A:x">>, verbose |-> TRUE],
      [queries |-> <<"D:m">>,              verbose |-> TRUE],
      [queries |-> <<"A:s">>,              verbose |-> FALSE],
      [queries |-> <<"A:u">>,              verbose |-> FALSE],
      [queries |-> <<"A:n", "B:n", "C:n", "D:n", "E:n", "F:n">>, verbose |-> FALSE] }

\* time.ctime() at the moment the report is written
Clock == {"Tue Nov  3 10:00:00 2026", "Tue Nov  3 10:00:07 2026"}

\* ------------------------------------------------------------------------
\* State
\* ------------------------------------------------------------------------
VARIABLES
    args,            \* argparse.Namespace: queries (-q list), verbose (-v)
    main_pc,         \* position of the main thread in run()
    queries,         \* dict title -> query of _get_queries, in insertion order
    futures,         \* per submitted find_pdf_links call: state, its pdf_links set, its URL tasks
    fidx,            \* position of the loop over future_to_title
    search_results,  \* dict title -> pdf_links (a reference to the call's set), in insertion order
    lock,            \* PDFSearcher.lock: None or the worker holding it
    log,             \* records emitted through logging
    wire,            \* HTTP requests issued through the session: query, worker, outcome
    searched,        \* calls of search() issued
    report,          \* lines of the report file, NoFile if it was never opened
    exit_code,       \* process exit status, -1 until the process ends
    transport        \* one request through the mounted HTTPAdapter: answers seen, retries left, outcome

vars == <<args, main_pc, queries, futures, fidx, search_results, lock, log,
          wire, searched, report, exit_code, transport>>

None == <<>>
NoFile == <<"no file">>

Info(m, a)  == [level |-> "INFO", msg |-> m, about |-> a]
Debug(m, a) == [level |-> "DEBUG", msg |-> m, about |-> a]
Error(m, a) == [level |-> "ERROR", msg |-> m, about |-> a]

\* ------------------------------------------------------------------------
\* dict helpers (insertion-ordered dict as a list of <<key, value>>)
\* ------------------------------------------------------------------------
Keys(d) == [i \in 1..Len(d) |-> d[i][1]]

\* d[k] = v: a new key is appended, an existing key keeps its position
DictSet(d, k, v) ==
    IF \E i \in 1..Len(d) : d[i][1] = k
    THEN [i \in 1..Len(d) |-> IF d[i][1] = k THEN <<k, v>> ELSE d[i]]
    ELSE Append(d, <<k, v>>)

\* ------------------------------------------------------------------------
\* SearchApplication._get_queries
\* ------------------------------------------------------------------------
\* q.split(":", 1) unpacks into title, query unless it has a single field
Malformed(q) == Len(split(q)) # 2

RECURSIVE ParseQueries_skip_malformed(_, _)
\* variant: a malformed entry is skipped and the loop goes on
ParseQueries_skip_malformed(entries, d) ==
    IF entries = <<>> THEN [kind |-> "ok", queries |-> d]
    ELSE LET q == Head(entries)
         IN  IF Malformed(q) THEN ParseQueries_skip_malformed(Tail(entries), d)
             ELSE ParseQueries_skip_malformed(Tail(entries),
                               DictSet(d, strip(split(q)[1]), strip(split(q)[2])))

RECURSIVE ParseQueries(_, _)
\* the loop over args.queries: the dict built, or the entry it exits on
ParseQueries(entries, d) ==
    IF entries = <<>> THEN [kind |-> "ok", queries |-> d]
    ELSE LET q == Head(entries)
         IN  IF Malformed(q) THEN [kind |-> "exit", entry |-> q]
             ELSE ParseQueries(Tail(entries),
                               DictSet(d, strip(split(q)[1]), strip(split(q)[2])))

_get_queries(a) ==
    IF a.queries = <<>> THEN [kind |-> "ok", queries |-> DEFAULT_QUERIES]
    ELSE ParseQueries(a.queries, <<>>)

\* ------------------------------------------------------------------------
\* FileHandler.save_results
\* ------------------------------------------------------------------------
\* the set object a search_results value refers to
Links(ref) == futures[ref].pdf_links

RECURSIVE Body(_)
\* the lines written for the entries of the map, in iteration order
Body(d) ==
    IF d = <<>> THEN <<>>
    ELSE LET title == Head(d)[1]
             links == Links(Head(d)[2])
         IN  <<title \o " (" \o ToString(Cardinality(links)) \o " results):">>
             \o sorted(links) \o <<"">> \o Body(Tail(d))

ReportLines(now, d) == <<"Search performed on: " \o now, "">> \o Body(d)

\* Retry(total=max_retries, status_forcelist=retry_status_codes) at the
\* start of a request
Pending == [kind |-> "pending"]

NewRequest == [seen |-> <<>>, total |-> max_retries, outcome |-> Pending]

Init ==
    /\ args \in ArgSamples
    /\ main_pc = "run"
    /\ queries = <<>>
    /\ futures = <<>>
    /\ fidx = 1
    /\ search_results = <<>>
    /\ lock = None
    /\ log = {}
    /\ wire = {}
    /\ searched = {}
    /\ report = NoFile
    /\ exit_code = -1
    /\ transport = NewRequest

\* ------------------------------------------------------------------------
\* Main thread: run() -> _perform_searches -> _save_results
\* ------------------------------------------------------------------------
NewFuture == [st |-> "queued", pdf_links |-> {}, tasks |-> <<>>]

\* run() up to the submission of one future per query, or sys.exit(1)
PerformSearches ==
    /\ main_pc = "run"
    /\ LET r == _get_queries(args)
       IN  IF r.kind = "exit"
           THEN /\ log' = log \cup {Error("Invalid query format", r.entry)}
                /\ exit_code' = 1
                /\ main_pc' = "exited"
                /\ UNCHANGED <<queries, futures>>
           ELSE /\ queries' = r.queries
                /\ futures' = [i \in 1..Len(r.queries) |-> NewFuture]
                /\ main_pc' = "collect"
                /\ UNCHANGED <<log, exit_code>>
    /\ UNCHANGED <<transport, args, fidx, search_results, lock, wire, searched, report>>

\* variant: results are stored only for queries that found something
Collect_skip_empty ==
    /\ main_pc = "collect"
    /\ fidx <= Len(futures)
    /\ futures[fidx].st = "returned"
    /\ search_results' = IF futures[fidx].pdf_links = {} THEN search_results
                         ELSE DictSet(search_results, queries[fidx][1], fidx)
    /\ fidx' = fidx + 1
    /\ UNCHANGED <<transport, args, main_pc, queries, futures, lock, log, wire, searched,
                   report, exit_code>>

\* variant: results are stored as the futures complete, not in submission order
Collect_as_completed ==
    /\ main_pc = "collect"
    /\ fidx <= Len(futures)
    /\ \E i \in 1..Len(futures) :
        /\ futures[i].st = "returned"
        /\ \A n \in 1..Len(search_results) : search_results[n][2] # i
        /\ search_results' = DictSet(search_results, queries[i][1], i)
    /\ fidx' = fidx + 1
    /\ UNCHANGED <<transport, args, main_pc, queries, futures, lock, log, wire, searched,
                   report, exit_code>>

\* one iteration of "for future in future_to_title": future.result() blocks
\* until the call has returned
Collect ==
    /\ main_pc = "collect"
    /\ fidx <= Len(futures)
    /\ futures[fidx].st = "returned"
    /\ LET title == queries[fidx][1]
           pdf_links == futures[fidx].pdf_links
           s == sorted(pdf_links)
       IN  /\ search_results' = DictSet(search_results, title, fidx)
           /\ log' = log \cup {Info("title", title)}
                         \cup {Info("[" \o ToString(i) \o "]", s[i]) : i \in 1..Len(s)}
                         \cup (IF pdf_links = {} THEN {Info("No PDFs found", title)} ELSE {})
    /\ fidx' = fidx + 1
    /\ UNCHANGED <<transport, args, main_pc, queries, futures, lock, wire, searched, report, exit_code>>

\* the outer pool is left, _save_results and save_results run, run() ends.
\* open() or a write can fail with IOError (caught, logged) or with another
\* exception (not caught by "except IOError"); k lines were written before.
SaveResults ==
    /\ main_pc = "collect"
    /\ fidx > Len(futures)
    /\ \E now \in Clock, fault \in {"none", "IOError", "Exception"} :
        LET lines == ReportLines(now, search_results)
        IN  \E k \in (IF fault = "none" THEN {Len(lines)} ELSE {-1, 1, Len(lines) - 1}) :
            /\ report' = IF k < 0 THEN NoFile ELSE SubSeq(lines, 1, k)
            /\ log' = log \cup (CASE fault = "none"    -> {Info("Results saved", "")}
                                  [] fault = "IOError" -> {Error("Failed to save results", "")}
                                  [] OTHER             -> {})
            /\ exit_code' = IF fault = "Exception" THEN 1 ELSE 0
            /\ main_pc' = IF fault = "Exception" THEN "crashed" ELSE "done"
    /\ UNCHANGED <<transport, args, queries, futures, fidx, search_results, lock, wire, searched>>

\* ------------------------------------------------------------------------
\* ThreadPoolExecutor: tasks start in submission order, at most cap at once
\* ------------------------------------------------------------------------
Running(ts) == {j \in 1..Len(ts) : ts[j].st \notin {"pending", "queued", "done", "returned"}}

\* variant: a pool that starts every submitted task at once
CanStart_unbounded(ts, j, cap) ==
    \A h \in 1..(j - 1) : ts[h].st \notin {"pending", "queued"}

CanStart(ts, j, cap) ==
    /\ \A h \in 1..(j - 1) : ts[h].st \notin {"pending", "queued"}
    /\ Cardinality(Running(ts)) < cap

AllDone(ts) == \A j \in 1..Len(ts) : ts[j].st = "done"

\* ------------------------------------------------------------------------
\* PDFSearcher
\* ------------------------------------------------------------------------
NewTask(u) == [url |-> u, st |-> "pending", raised |-> FALSE, sub |-> <<>>]
NewCheck(u) == [url |-> u, st |-> "pending", raised |-> FALSE]

\* variant: any response confirms the URL, whatever its status
Confirms_any_status(r) == r.kind = "response"

\* _check_direct_pdf, line 78: the response confirms the URL
Confirms(r) == r.kind = "response" /\ r.status_code = 200

\* _check_direct_pdf, line 83: the failure is swallowed
Swallowed(r) == r.kind = "RequestException"

\* _check_direct_pdf up to the lock: "insert" (go on to add the URL),
\* "skip" (return without adding) or "raise" (the exception leaves the call)
_check_direct_pdf(url) ==
    LET r == session_head(url)
    IN  IF Confirms(r) THEN "insert"
        ELSE IF r.kind = "response" \/ Swallowed(r) THEN "skip"
        ELSE "raise"

\* response.raise_for_status(): HTTPError on 4xx and 5xx
raise_for_status(r) == r.status_code >= 400 /\ r.status_code < 600

\* _scrape_page_for_pdfs up to the nested pool: the pdf_urls to check
\* ("fanout"), a caught failure ("skip") or an exception that leaves the call
_scrape_page_for_pdfs(url) ==
    LET g == session_get(url)
    IN  IF g.kind = "RequestException" THEN [kind |-> "skip", pdf_urls |-> <<>>]
        ELSE IF g.kind = "Exception" THEN [kind |-> "raise", pdf_urls |-> <<>>]
        ELSE IF raise_for_status(g) THEN [kind |-> "skip", pdf_urls |-> <<>>]
        ELSE LET p == find_all_href(url)
                 h == SelectPdf(p.hrefs)
             IN  IF p.kind = "ValueError" THEN [kind |-> "skip", pdf_urls |-> <<>>]
                 ELSE [kind |-> "fanout",
                       pdf_urls |-> [k \in 1..Len(h) |-> urljoin(url, h[k])]]

\* a worker of the outer pool runs find_pdf_links up to the inner pool: the
\* search, and one task per result
FindPdfLinks(i) ==
    /\ main_pc = "collect"
    /\ futures[i].st = "queued"
    /\ CanStart(futures, i, Min(Len(queries), max_workers))
    /\ LET query == queries[i][2]
           r == search(query, search_results_limit)
       IN  /\ searched' = searched \cup {[q |-> i, query |-> query]}
           /\ log' = log \cup (IF args.verbose THEN {Info("Searching", query)} ELSE {})
                         \cup (IF r.kind = "Exception" THEN {Error("Search failed", query)} ELSE {})
           /\ futures' = [futures EXCEPT ![i] =
                  IF r.kind = "Exception"
                  THEN [st |-> "returned", pdf_links |-> {}, tasks |-> <<>>]
                  ELSE [st |-> "dispatch", pdf_links |-> {},
                        tasks |-> [j \in 1..Len(r.urls) |-> NewTask(r.urls[j])]]]
    /\ UNCHANGED <<transport, args, main_pc, queries, fidx, search_results, lock, wire, report, exit_code>>

\* variant: the inner pool is shut down without waiting for its tasks
ReturnLinks_without_wait(i) ==
    /\ futures[i].st = "dispatch"
    /\ futures' = [futures EXCEPT ![i].st = "returned"]
    /\ UNCHANGED <<transport, args, main_pc, queries, fidx, search_results, lock, log, wire,
                   searched, report, exit_code>>

\* the inner pool is left once every task has finished; pdf_links is returned
ReturnLinks(i) ==
    /\ futures[i].st = "dispatch"
    /\ AllDone(futures[i].tasks)
    /\ futures' = [futures EXCEPT ![i].st = "returned"]
    /\ UNCHANGED <<transport, args, main_pc, queries, fidx, search_results, lock, log, wire,
                   searched, report, exit_code>>

\* variant: the sleep follows the try block instead of being its finally
\* clause, so an exception leaves _process_url without sleeping
ProcessUrl_sleep_after_try(i, j) ==
    /\ futures[i].st = "dispatch"
    /\ futures[i].tasks[j].st = "pending"
    /\ CanStart(futures[i].tasks, j, max_workers)
    /\ LET url == futures[i].tasks[j].url
       IN  IF endswith(url, ".pdf")
           THEN LET o == _check_direct_pdf(url)
                IN  /\ wire' = wire \cup {[q |-> i, by |-> <<j, 0>>, method |-> "HEAD", url |-> url,
                                           result |-> session_head(url)]}
                    /\ futures' = [futures EXCEPT ![i].tasks[j] =
                           [@ EXCEPT !.st = IF o = "insert" THEN "want_lock"
                                            ELSE IF o = "raise" THEN "done" ELSE "sleep",
                                     !.raised = (o = "raise")]]
                    /\ log' = log
           ELSE LET o == _scrape_page_for_pdfs(url)
                IN  /\ wire' = wire \cup {[q |-> i, by |-> <<j, 0>>, method |-> "GET", url |-> url,
                                           result |-> session_get(url)]}
                    /\ futures' = [futures EXCEPT ![i].tasks[j] =
                           [@ EXCEPT !.st = IF o.kind = "fanout" THEN "fanout"
                                            ELSE IF o.kind = "raise" THEN "done" ELSE "sleep",
                                     !.raised = (o.kind = "raise"),
                                     !.sub = [k \in 1..Len(o.pdf_urls) |-> NewCheck(o.pdf_urls[k])]]]
                    /\ log' = log \cup (IF o.kind = "skip" /\ args.verbose
                                        THEN {Debug("Skipping", url)} ELSE {})
    /\ UNCHANGED <<transport, args, main_pc, queries, fidx, search_results, lock, searched,
                   report, exit_code>>

\* a worker of a query's pool runs _process_url up to the lock, the nested
\* pool or the sleep
ProcessUrl(i, j) ==
    /\ futures[i].st = "dispatch"
    /\ futures[i].tasks[j].st = "pending"
    /\ CanStart(futures[i].tasks, j, max_workers)
    /\ LET url == futures[i].tasks[j].url
       IN  IF endswith(url, ".pdf")
           THEN LET o == _check_direct_pdf(url)
                IN  /\ wire' = wire \cup {[q |-> i, by |-> <<j, 0>>, method |-> "HEAD", url |-> url,
                                           result |-> session_head(url)]}
                    /\ futures' = [futures EXCEPT ![i].tasks[j] =
                           [@ EXCEPT !.st = IF o = "insert" THEN "want_lock" ELSE "sleep",
                                     !.raised = (o = "raise")]]
                    /\ log' = log
           ELSE LET o == _scrape_page_for_pdfs(url)
                IN  /\ wire' = wire \cup {[q |-> i, by |-> <<j, 0>>, method |-> "GET", url |-> url,
                                           result |-> session_get(url)]}
                    /\ futures' = [futures EXCEPT ![i].tasks[j] =
                           [@ EXCEPT !.st = IF o.kind = "fanout" THEN "fanout" ELSE "sleep",
                                     !.raised = (o.kind = "raise"),
                                     !.sub = [k \in 1..Len(o.pdf_urls) |-> NewCheck(o.pdf_urls[k])]]]
                    /\ log' = log \cup (IF o.kind = "skip" /\ args.verbose
                                        THEN {Debug("Skipping", url)} ELSE {})
    /\ UNCHANGED <<transport, args, main_pc, queries, fidx, search_results, lock, searched,
                   report, exit_code>>

\* "with self.lock:" entered by the worker of a search-result URL
AcquireDirect(i, j) ==
    /\ futures[i].tasks[j].st = "want_lock"
    /\ lock = None
    /\ lock' = <<i, j, 0>>
    /\ futures' = [futures EXCEPT ![i].tasks[j].st = "in_cs"]
    /\ UNCHANGED <<transport, args, main_pc, queries, fidx, search_results, log, wire,
                   searched, report, exit_code>>

\* variant: the lock is acquired without "with" and is not released
AddDirect_keep_lock(i, j) ==
    /\ futures[i].tasks[j].st = "in_cs"
    /\ lock = <<i, j, 0>>
    /\ lock' = lock
    /\ futures' = [futures EXCEPT ![i].pdf_links = @ \cup {futures[i].tasks[j].url},
                                  ![i].tasks[j].st = "sleep"]
    /\ log' = log \cup (IF args.verbose THEN {Debug("Found", futures[i].tasks[j].url)} ELSE {})
    /\ UNCHANGED <<transport, args, main_pc, queries, fidx, search_results, wire, searched,
                   report, exit_code>>

\* pdf_links.add(url), the lock is released, "Found" is logged
AddDirect(i, j) ==
    /\ futures[i].tasks[j].st = "in_cs"
    /\ lock = <<i, j, 0>>
    /\ lock' = None
    /\ futures' = [futures EXCEPT ![i].pdf_links = @ \cup {futures[i].tasks[j].url},
                                  ![i].tasks[j].st = "sleep"]
    /\ log' = log \cup (IF args.verbose THEN {Debug("Found", futures[i].tasks[j].url)} ELSE {})
    /\ UNCHANGED <<transport, args, main_pc, queries, fidx, search_results, wire, searched,
                   report, exit_code>>

\* variant: an extracted link is fetched in full, like a search result
CheckLink_full_fetch(i, j, k) ==
    /\ futures[i].tasks[j].st = "fanout"
    /\ futures[i].tasks[j].sub[k].st = "pending"
    /\ CanStart(futures[i].tasks[j].sub, k, max_workers)
    /\ LET url == futures[i].tasks[j].sub[k].url
       IN  /\ wire' = wire \cup {[q |-> i, by |-> <<j, k>>, method |-> "GET", url |-> url,
                                  result |-> session_get(url)]}
           /\ futures' = [futures EXCEPT ![i].tasks[j].sub[k].st = "done"]
    /\ UNCHANGED <<transport, args, main_pc, queries, fidx, search_results, lock, log, searched,
                   report, exit_code>>

\* a worker of a page's pool runs _check_direct_pdf on an extracted link
CheckLink(i, j, k) ==
    /\ futures[i].tasks[j].st = "fanout"
    /\ futures[i].tasks[j].sub[k].st = "pending"
    /\ CanStart(futures[i].tasks[j].sub, k, max_workers)
    /\ LET url == futures[i].tasks[j].sub[k].url
           o == _check_direct_pdf(url)
       IN  /\ wire' = wire \cup {[q |-> i, by |-> <<j, k>>, method |-> "HEAD", url |-> url,
                                  result |-> session_head(url)]}
           /\ futures' = [futures EXCEPT ![i].tasks[j].sub[k] =
                  [@ EXCEPT !.st = IF o = "insert" THEN "want_lock" ELSE "done",
                            !.raised = (o = "raise")]]
    /\ UNCHANGED <<transport, args, main_pc, queries, fidx, search_results, lock, log, searched,
                   report, exit_code>>

\* variant: the block is entered without waiting for the lock
AcquireLink_without_lock(i, j, k) ==
    /\ futures[i].tasks[j].sub[k].st = "want_lock"
    /\ lock' = <<i, j, k>>
    /\ futures' = [futures EXCEPT ![i].tasks[j].sub[k].st = "in_cs"]
    /\ UNCHANGED <<transport, args, main_pc, queries, fidx, search_results, log, wire,
                   searched, report, exit_code>>

\* "with self.lock:" entered by the worker of an extracted link
AcquireLink(i, j, k) ==
    /\ futures[i].tasks[j].sub[k].st = "want_lock"
    /\ lock = None
    /\ lock' = <<i, j, k>>
    /\ futures' = [futures EXCEPT ![i].tasks[j].sub[k].st = "in_cs"]
    /\ UNCHANGED <<transport, args, main_pc, queries, fidx, search_results, log, wire,
                   searched, report, exit_code>>

\* variant: the result set is an attribute of the shared PDFSearcher, so an
\* insertion shows in the set of every query
AddLink_shared_set(i, j, k) ==
    /\ futures[i].tasks[j].sub[k].st = "in_cs"
    /\ lock = <<i, j, k>>
    /\ lock' = None
    /\ futures' = [h \in 1..Len(futures) |->
                      IF h = i
                      THEN [futures[h] EXCEPT !.pdf_links = @ \cup {futures[i].tasks[j].sub[k].url},
                                              !.tasks[j].sub[k].st = "done"]
                      ELSE [futures[h] EXCEPT !.pdf_links = @ \cup {futures[i].tasks[j].sub[k].url}]]
    /\ log' = log \cup (IF args.verbose
                        THEN {Debug("Found", futures[i].tasks[j].sub[k].url)} ELSE {})
    /\ UNCHANGED <<transport, args, main_pc, queries, fidx, search_results, wire, searched,
                   report, exit_code>>

AddLink(i, j, k) ==
    /\ futures[i].tasks[j].sub[k].st = "in_cs"
    /\ lock = <<i, j, k>>
    /\ lock' = None
    /\ futures' = [futures EXCEPT ![i].pdf_links = @ \cup {futures[i].tasks[j].sub[k].url},
                                  ![i].tasks[j].sub[k].st = "done"]
    /\ log' = log \cup (IF args.verbose
                        THEN {Debug("Found", futures[i].tasks[j].sub[k].url)} ELSE {})
    /\ UNCHANGED <<transport, args, main_pc, queries, fidx, search_results, wire, searched,
                   report, exit_code>>

\* the nested pool is left once every link check has finished
LeaveFanout(i, j) ==
    /\ futures[i].tasks[j].st = "fanout"
    /\ AllDone(futures[i].tasks[j].sub)
    /\ futures' = [futures EXCEPT ![i].tasks[j].st = "sleep"]
    /\ UNCHANGED <<transport, args, main_pc, queries, fidx, search_results, lock, log, wire,
                   searched, report, exit_code>>

\* variant: a task that ends with an exception cancels the tasks not yet started
Sleep_cancelling_pending(i, j) ==
    /\ futures[i].tasks[j].st = "sleep"
    /\ futures' = [futures EXCEPT ![i].tasks =
           [h \in 1..Len(@) |->
               IF h = j \/ (futures[i].tasks[j].raised /\ @[h].st = "pending")
               THEN [@[h] EXCEPT !.st = "done"] ELSE @[h]]]
    /\ UNCHANGED <<transport, args, main_pc, queries, fidx, search_results, lock, log, wire,
                   searched, report, exit_code>>

\* "finally: time.sleep(...)"; the task ends (an exception it carries is
\* kept in its future, which nothing reads)
Sleep(i, j) ==
    /\ futures[i].tasks[j].st = "sleep"
    /\ futures' = [futures EXCEPT ![i].tasks[j].st = "done"]
    /\ UNCHANGED <<transport, args, main_pc, queries, fidx, search_results, lock, log, wire,
                   searched, report, exit_code>>

Next ==
    \/ PerformSearches
    \/ Collect
    \/ SaveResults
    \/ \E i \in 1..Len(futures) : FindPdfLinks(i)
    \/ \E i \in 1..Len(futures) : ReturnLinks(i)
    \/ \E i \in 1..Len(futures) : \E j \in 1..Len(futures[i].tasks) : ProcessUrl(i, j)
    \/ \E i \in 1..Len(futures) : \E j \in 1..Len(futures[i].tasks) : AcquireDirect(i, j)
    \/ \E i \in 1..Len(futures) : \E j \in 1..Len(futures[i].tasks) : AddDirect(i, j)
    \/ \E i \in 1..Len(futures) : \E j \in 1..Len(futures[i].tasks) : LeaveFanout(i, j)
    \/ \E i \in 1..Len(futures) : \E j \in 1..Len(futures[i].tasks) : Sleep(i, j)
    \/ \E i \in 1..Len(futures) : \E j \in 1..Len(futures[i].tasks) :
           \E k \in 1..Len(futures[i].tasks[j].sub) : CheckLink(i, j, k)
    \/ \E i \in 1..Len(futures) : \E j \in 1..Len(futures[i].tasks) :
           \E k \in 1..Len(futures[i].tasks[j].sub) : AcquireLink(i, j, k)
    \/ \E i \in 1..Len(futures) : \E j \in 1..Len(futures[i].tasks) :
           \E k \in 1..Len(futures[i].tasks[j].sub) : AddLink(i, j, k)

Spec == Init /\ [][Next]_vars

\* every search call and request returns, and a thread that can run is
\* scheduled: some enabled step is eventually taken
FairSpec == Spec /\ WF_vars(Next)

\* ------------------------------------------------------------------------
\* SessionManager: the retry policy mounted on the session.  A request is
\* sent; an answer whose status is in status_forcelist, or a connection
\* failure, consumes one retry and the request is sent again until the
\* retries are exhausted.
\* ------------------------------------------------------------------------
\* what the endpoint may answer to one attempt: a status, or 0 for a
\* connection failure (no status line received)
Answers == {0, 200, 204, 404, 429, 500, 502, 503, 504}

\* Retry.is_retry for a status, or a connection failure
is_retry(a) == a = 0 \/ a \in retry_status_codes

\* variant: the last retry is never used
is_exhausted_at_zero(total) == total <= 0

\* Retry.increment / is_exhausted: the retries left after this failure
is_exhausted(total) == total < 0

\* one attempt of the request and what the adapter does with the answer
Attempt ==
    /\ main_pc = "transport"
    /\ transport.outcome = Pending
    /\ \E a \in Answers :
        transport' =
            IF ~is_retry(a)
            THEN [seen |-> Append(transport.seen, a), total |-> transport.total,
                  outcome |-> Response(a)]
            ELSE IF is_exhausted(transport.total - 1)
            THEN [seen |-> Append(transport.seen, a), total |-> transport.total - 1,
                  outcome |-> RequestException]
            ELSE [seen |-> Append(transport.seen, a), total |-> transport.total - 1,
                  outcome |-> Pending]
    /\ UNCHANGED <<args, main_pc, queries, futures, fidx, search_results, lock, log,
                   wire, searched, report, exit_code>>

RetryInit ==
    /\ args = [queries |-> <<>>, verbose |-> FALSE]
    /\ main_pc = "transport"
    /\ queries = <<>>
    /\ futures = <<>>
    /\ fidx = 1
    /\ search_results = <<>>
    /\ lock = None
    /\ log = {}
    /\ wire = {}
    /\ searched = {}
    /\ report = NoFile
    /\ exit_code = -1
    /\ transport = NewRequest

RetryNext == Attempt

RetrySpec == RetryInit /\ [][RetryNext]_vars

\* ------------------------------------------------------------------------
\* Properties
\* ------------------------------------------------------------------------
Queries == 1..Len(futures)
Tasks(i) == 1..Len(futures[i].tasks)
Checks(i, j) == 1..Len(futures[i].tasks[j].sub)

Success(r) == r.kind = "response" /\ r.status_code \in 200..299

\* a HEAD was issued against u for query i and returned a success status
HeadSucceeded(i, u) ==
    \E r \in wire : r.q = i /\ r.method = "HEAD" /\ r.url = u /\ Success(r.result)

\* u is a search result of query i that ends in .pdf
IsDirect(i, u) ==
    \E j \in Tasks(i) : futures[i].tasks[j].url = u /\ endswith(u, ".pdf")

\* u was extracted from a page fetched for query i
IsExtracted(i, u) ==
    \E j \in Tasks(i) :
        /\ \E r \in wire : r.q = i /\ r.method = "GET" /\ r.url = futures[i].tasks[j].url
        /\ \E k \in Checks(i, j) : futures[i].tasks[j].sub[k].url = u

\* the URLs a query's result set must hold once the query has finished,
\* computed from the environment alone
Verified(query) ==
    LET r == search(query, search_results_limit)
        direct == {u \in Range(r.urls) : endswith(u, ".pdf")}
        pages == Range(r.urls) \ direct
        extracted == UNION {Range(_scrape_page_for_pdfs(p).pdf_urls) : p \in pages}
    IN  {u \in direct \cup extracted : _check_direct_pdf(u) = "insert"}

\* C1: every URL in a query's result set had, during that query, an
\* existence check (HEAD) issued against it that returned a success status,
\* the URL being a search result ending in .pdf or a link extracted from a
\* fetched page; a URL without a successful check is in no result set.
C1_MemberHadSuccessfulCheck ==
    \A i \in Queries : \A u \in futures[i].pdf_links :
        /\ HeadSucceeded(i, u)
        /\ IsDirect(i, u) \/ IsExtracted(i, u)

\* a result set holds a direct search result and a link that only a page gave
C1_Witness ==
    \E i \in Queries : \E u, v \in futures[i].pdf_links :
        /\ IsDirect(i, u)
        /\ IsExtracted(i, v) /\ ~IsDirect(i, v)

\* C2 (as claimed): once a query has returned, every candidate URL whose
\* existence check answered with a status in 200..299 is in its result set.
C2_Every2xxIsInserted ==
    \A i \in Queries :
        futures[i].st = "returned" =>
            \A r \in wire :
                (r.q = i /\ r.method = "HEAD" /\ Success(r.result))
                    => r.url \in futures[i].pdf_links

\* C3 (as claimed): no call of _check_direct_pdf, for a search result or for
\* an extracted link, lets an exception reach its caller.
C3_CheckNeverRaises ==
    \A i \in Queries : \A j \in Tasks(i) :
        /\ endswith(futures[i].tasks[j].url, ".pdf") => ~futures[i].tasks[j].raised
        /\ \A k \in Checks(i, j) : ~futures[i].tasks[j].sub[k].raised

\* the search of query i raises, at the call or while its results are consumed
SearchRaises(i) == Provider(queries[i][2]).raises # "no"

\* C4: a query whose search raises returns an empty result set, the error
\* is logged, none of its candidate URLs is processed (no task, no request),
\* and when the run ends every other query holds exactly its verified URLs.
C4_SearchFailureIsContained ==
    /\ \A i \in Queries :
        (SearchRaises(i) /\ futures[i].st # "queued") =>
            /\ futures[i].st = "returned"
            /\ futures[i].pdf_links = {}
            /\ futures[i].tasks = <<>>
            /\ Error("Search failed", queries[i][2]) \in log
            /\ \A r \in wire : r.q # i
    /\ main_pc = "done" =>
        \A i \in Queries :
            ~SearchRaises(i) =>
                /\ futures[i].st = "returned"
                /\ futures[i].pdf_links = Verified(queries[i][2])

\* the run ended, a search failed lazily, another query found links
C4_Witness ==
    /\ main_pc = "done"
    /\ exit_code = 0
    /\ \E i, j \in Queries :
        /\ Provider(queries[i][2]).raises = "lazy"
        /\ futures[i].st = "returned"
        /\ futures[j].pdf_links # {}

\* ------------------------------------------------------------------------
\* The report, read back
\* ------------------------------------------------------------------------
\* run() has passed the report writer
HandedOff == main_pc \in {"done", "crashed"}

\* the report file was written to the end
Saved == main_pc = "done" /\ Info("Results saved", "") \in log

RECURSIVE Blocks(_, _)
\* the blocks of lines that the blank separator lines end
Blocks(lines, cur) ==
    IF lines = <<>> THEN (IF cur = <<>> THEN <<>> ELSE <<cur>>)
    ELSE IF Head(lines) = "" THEN <<cur>> \o Blocks(Tail(lines), <<>>)
    ELSE Blocks(Tail(lines), Append(cur, Head(lines)))

\* the per-query blocks of a complete report: title line, then link lines
ReportBlocks == Blocks(SubSeq(report, 3, Len(report)), <<>>)

RECURSIVE Dedup(_)
\* a list without the later repetitions of its elements
Dedup(s) ==
    IF s = <<>> THEN <<>>
    ELSE LET r == Dedup(SubSeq(s, 1, Len(s) - 1))
         IN  IF s[Len(s)] \in Range(r) THEN r ELSE Append(r, s[Len(s)])

\* the titles on the command line (or the default ones), in the order supplied
SuppliedTitles ==
    IF args.queries = <<>> THEN [n \in 1..Len(DEFAULT_QUERIES) |-> DEFAULT_QUERIES[n][1]]
    ELSE Dedup([n \in 1..Len(args.queries) |->
                   strip(SubSeq(args.queries[n], 1, find(args.queries[n], ":") - 1))])

\* the elements of a set of strings in ascending order, by rank
Ascending(S) ==
    [n \in 1..Cardinality(S) |->
        CHOOSE u \in S : Cardinality({v \in S : StrLess(v, u)}) = n - 1]

\* C5: what is handed to reporting has exactly one entry per query title,
\* in the order the queries were supplied (at any moment the map holds the
\* first titles in that order, whichever query finished first); a query
\* without verified URLs has its entry: a "(0 results)" line and no link line.
C5_OneEntryPerTitleInOrder ==
    /\ main_pc = "collect" => Keys(search_results) = SubSeq(SuppliedTitles, 1, fidx - 1)
    /\ HandedOff => Keys(search_results) = SuppliedTitles
    /\ Saved =>
        /\ Len(ReportBlocks) = Len(SuppliedTitles)
        /\ \A n \in 1..Len(SuppliedTitles) :
            Links(search_results[n][2]) = {} =>
                ReportBlocks[n] = <<SuppliedTitles[n] \o " (0 results):">>

\* a written report with an empty entry between or next to non-empty ones
C5_Witness ==
    /\ Saved
    /\ \E n, m \in 1..Len(search_results) :
        /\ Links(search_results[n][2]) = {}
        /\ Links(search_results[m][2]) # {}
        /\ ReportBlocks[n] = <<queries[n][1] \o " (0 results):">>

\* C6: in the written report every query's link lines are in strictly
\* ascending lexicographic order (so no URL is listed twice), they are the
\* verified URLs of the query, and the printed count is their number.
C6_LinksSortedDistinctCounted ==
    Saved =>
        \A n \in 1..Len(ReportBlocks) :
            LET links == Tail(ReportBlocks[n])
                want == Verified(queries[n][2])
            IN  /\ \A a \in 1..(Len(links) - 1) : StrLess(links[a], links[a + 1])
                /\ Range(links) = want
                /\ Head(ReportBlocks[n]) =
                       queries[n][1] \o " (" \o ToString(Cardinality(want)) \o " results):"

\* a written report listing a URL that two workers of the query verified
C6_Witness ==
    /\ Saved
    /\ \E r1, r2 \in wire :
        /\ r1.q = r2.q /\ r1.url = r2.url /\ r1.by # r2.by
        /\ r1.by[1] # r2.by[1]
        /\ r1.method = "HEAD" /\ r2.method = "HEAD"
        /\ Success(r1.result)
        /\ \E a \in 1..Len(ReportBlocks[r1.q]) : ReportBlocks[r1.q][a] = r1.url
        /\ Len(ReportBlocks[r1.q]) >= 3

RECURSIVE ExpectedBody(_)
\* the report below its timestamp line as the inputs alone determine it
ExpectedBody(titles) ==
    IF titles = <<>> THEN <<>>
    ELSE LET t == Head(titles)
             d == _get_queries(args).queries
             q == (CHOOSE n \in 1..Len(d) : d[n][1] = t)
             links == Verified(d[q][2])
         IN  <<t \o " (" \o ToString(Cardinality(links)) \o " results):">>
             \o Ascending(links) \o <<"">> \o ExpectedBody(Tail(titles))

IsPrefix(a, b) == Len(a) <= Len(b) /\ a = SubSeq(b, 1, Len(a))

\* C7: below its timestamp line the report is a function of the queries and
\* of the answers of the search provider and the endpoints: whatever the
\* scheduling, a written report equals that function's value, and a report
\* cut short by a write failure is a prefix of it.
C7_ReportDeterminedByInputs ==
    (HandedOff /\ report # NoFile) =>
        /\ IsPrefix(Tail(report), <<"">> \o ExpectedBody(SuppliedTitles))
        /\ Saved => Tail(report) = <<"">> \o ExpectedBody(SuppliedTitles)

\* a written report of several queries, one of them with several links
C7_Witness ==
    /\ Saved
    /\ Len(report) > 2
    /\ Len(ReportBlocks) >= 2
    /\ \E n \in 1..Len(ReportBlocks) : Len(ReportBlocks[n]) >= 3

\* C8: when an entry of the -q list has no ":", wherever it stands, the
\* process ends with exit code 1 in _get_queries, and no search call, no
\* HTTP request and no report file has been or is made.
C8_MalformedEntryExitsBeforeWork ==
    ((\E n \in 1..Len(args.queries) : find(args.queries[n], ":") = 0) /\ main_pc # "run") =>
        /\ main_pc = "exited"
        /\ exit_code = 1
        /\ searched = {}
        /\ wire = {}
        /\ futures = <<>>
        /\ report = NoFile

\* the process exited on a malformed entry that follows a well-formed one
C8_Witness ==
    /\ main_pc = "exited"
    /\ exit_code = 1
    /\ Len(args.queries) >= 2
    /\ find(args.queries[1], ":") > 0

\* C9 (as claimed): once argument validation has passed, run() ends with
\* exit code 0, whatever fails afterwards.
C9_NoAbnormalEndAfterValidation ==
    main_pc # "exited" => exit_code \in {-1, 0}

\* the answers seen so far are all statuses of the allow-list
AllForced(seen) == \A n \in 1..Len(seen) : seen[n] \in retry_status_codes

InCS ==
    UNION {UNION {(IF futures[i].tasks[j].st = "in_cs" THEN {<<i, j, 0>>} ELSE {})
                  \cup {<<i, j, k>> : k \in {c \in Checks(i, j) :
                                                futures[i].tasks[j].sub[c].st = "in_cs"}}
                  : j \in Tasks(i)} : i \in Queries}

\* the URL a worker checks
UrlOf(w) ==
    IF w[3] = 0 THEN futures[w[1]].tasks[w[2]].url
    ELSE futures[w[1]].tasks[w[2]].sub[w[3]].url

\* C11: at most one worker is inside the insertion at any time and it is
\* the holder of the lock; a step that adds to a result set is taken by the
\* lock holder, a worker of that query (of its URL pool or of a page's
\* pool), and adds that worker's URL; a worker that has passed the insertion
\* has its URL in the set (no insertion is lost).
C11_InsertionUnderLock ==
    /\ [](/\ Cardinality(InCS) <= 1
          /\ \A w \in InCS : lock = w
          /\ \A i \in Queries : \A j \in Tasks(i) :
              /\ (/\ futures[i].tasks[j].st \in {"sleep", "done"}
                  /\ endswith(futures[i].tasks[j].url, ".pdf")
                  /\ _check_direct_pdf(futures[i].tasks[j].url) = "insert")
                     => futures[i].tasks[j].url \in futures[i].pdf_links
              /\ \A k \in Checks(i, j) :
                  (/\ futures[i].tasks[j].sub[k].st = "done"
                   /\ _check_direct_pdf(futures[i].tasks[j].sub[k].url) = "insert")
                      => futures[i].tasks[j].sub[k].url \in futures[i].pdf_links)
    /\ [][\A i \in Queries :
            futures'[i].pdf_links # futures[i].pdf_links =>
                /\ lock \in InCS
                /\ lock[1] = i
                /\ futures'[i].pdf_links = futures[i].pdf_links \cup {UrlOf(lock)}
                /\ lock' = None]_vars

\* a worker of a page's pool is inside the insertion while a worker of the
\* query's URL pool waits for the lock
C11_Witness ==
    \E i \in Queries : \E j, h \in Tasks(i) : \E k \in Checks(i, j) :
        /\ futures[i].tasks[j].sub[k].st = "in_cs"
        /\ lock = <<i, j, k>>
        /\ futures[i].tasks[h].st = "want_lock"

\* every task and every nested link check of query i has finished
Finished(i) ==
    /\ AllDone(futures[i].tasks)
    /\ \A j \in Tasks(i) : AllDone(futures[i].tasks[j].sub)

\* C12: when find_pdf_links has returned, every task dispatched for the
\* query (URL tasks and nested link checks) has finished; a set that was
\* returned is never changed again; the map refers only to returned sets
\* and the report is written only when every query has returned.
C12_FinalAtHandOff ==
    /\ [](/\ \A i \in Queries : futures[i].st = "returned" => Finished(i)
          /\ \A n \in 1..Len(search_results) : futures[search_results[n][2]].st = "returned"
          /\ HandedOff => \A i \in Queries : futures[i].st = "returned")
    /\ [][\A i \in Queries :
            futures[i].st = "returned" => futures'[i].pdf_links = futures[i].pdf_links]_vars

\* the report is written and a query with nested link checks found links
C12_Witness ==
    /\ Saved
    /\ \E i \in Queries : \E j \in Tasks(i) :
        /\ Len(futures[i].tasks) >= 2
        /\ Len(futures[i].tasks[j].sub) >= 2
        /\ Cardinality(futures[i].pdf_links) >= 2

\* the requests issued by worker <<j, k>> of query i
RequestsBy(i, j, k) == {r \in wire : r.q = i /\ r.by = <<j, k>>}

\* C13: a search-result URL ending in .pdf gets one existence check and no
\* full fetch; a search-result URL not ending in .pdf gets exactly one full
\* fetch; an extracted link gets one existence check only; so every full
\* fetch is for a URL of the search results, issued by its own task.
C13_DispatchBySuffixOneLevel ==
    /\ \A r \in wire :
        r.method = "GET" =>
            /\ r.by[2] = 0
            /\ r.url = futures[r.q].tasks[r.by[1]].url
            /\ ~endswith(r.url, ".pdf")
    /\ \A i \in Queries : \A j \in Tasks(i) :
        LET t == futures[i].tasks[j]
        IN  /\ RequestsBy(i, j, 0) =
                   IF t.st = "pending" THEN {}
                   ELSE IF endswith(t.url, ".pdf")
                   THEN {[q |-> i, by |-> <<j, 0>>, method |-> "HEAD", url |-> t.url,
                          result |-> session_head(t.url)]}
                   ELSE {[q |-> i, by |-> <<j, 0>>, method |-> "GET", url |-> t.url,
                          result |-> session_get(t.url)]}
            /\ \A k \in Checks(i, j) :
                RequestsBy(i, j, k) =
                    IF t.sub[k].st = "pending" THEN {}
                    ELSE {[q |-> i, by |-> <<j, k>>, method |-> "HEAD", url |-> t.sub[k].url,
                           result |-> session_head(t.sub[k].url)]}

\* a query has processed a .pdf result, a page and the links of the page
C13_Witness ==
    \E i \in Queries : \E j, h \in Tasks(i) :
        /\ futures[i].st = "returned"
        /\ endswith(futures[i].tasks[j].url, ".pdf")
        /\ ~endswith(futures[i].tasks[h].url, ".pdf")
        /\ Len(futures[i].tasks[h].sub) >= 2
        /\ \E r \in wire : r.q = i /\ r.by[1] = h /\ r.by[2] > 0

\* C14: whatever fails for one URL of a query, when the query returns
\* every task and nested check of the query has run to its end, and every
\* URL of the query whose existence check succeeds is in the result set.
C14_SiblingsUnaffected ==
    \A i \in Queries :
        futures[i].st = "returned" =>
            /\ Finished(i)
            /\ \A j \in Tasks(i) :
                /\ futures[i].tasks[j].st = "done"
                /\ RequestsBy(i, j, 0) # {}
                /\ \A k \in Checks(i, j) : RequestsBy(i, j, k) # {}
            /\ Verified(queries[i][2]) \subseteq futures[i].pdf_links

\* a query returned: a .pdf result and an extracted link raised, a page
\* raised, and their siblings are in the result set
C14_Witness ==
    \E i \in Queries : \E j, h, g \in Tasks(i) : \E k \in Checks(i, h) :
        /\ futures[i].st = "returned"
        /\ endswith(futures[i].tasks[j].url, ".pdf") /\ futures[i].tasks[j].raised
        /\ futures[i].tasks[h].sub[k].raised
        /\ ~endswith(futures[i].tasks[g].url, ".pdf") /\ futures[i].tasks[g].raised
        /\ futures[i].pdf_links # {}

\* a request that ended in a transport failure or an error status, or a
\* fetch whose page could not be parsed
FailedRequest(r) ==
    \/ r.result.kind = "RequestException"
    \/ r.result.kind = "response" /\ raise_for_status(r.result)
    \/ r.method = "GET" /\ r.result.kind = "response" /\ ~raise_for_status(r.result)
           /\ find_all_href(r.url).kind = "ValueError"

\* C15: in verbose mode every search-result URL or extracted link whose
\* existence check or fetch failed has a log record naming it; in
\* non-verbose mode the log holds no such record.
C15_EveryFailureLoggedWhenVerbose ==
    /\ args.verbose =>
           \A r \in wire :
               FailedRequest(r) => \E l \in log : l.about = r.url /\ l.msg # "Found"
    /\ ~args.verbose => \A l \in log : l.level # "DEBUG"

\* the workers of query i that can have a request in flight: a URL worker
\* that is not waiting for its nested pool, and the workers of nested pools
Leaves(i) ==
    UNION {IF futures[i].tasks[j].st = "fanout"
           THEN {<<j, k>> : k \in Running(futures[i].tasks[j].sub)}
           ELSE {<<j, 0>>} : j \in Running(futures[i].tasks)}

\* C16: at most min(number of queries, max_workers) queries are processed
\* at once; per query at most max_workers search-result URLs; per fetched
\* page at most max_workers link checks; so at most max_workers^2 workers
\* of one query can have a request in flight.
C16_BoundedConcurrency ==
    /\ Cardinality(Running(futures)) <= Min(Len(queries), max_workers)
    /\ \A i \in Queries :
        /\ Cardinality(Running(futures[i].tasks)) <= max_workers
        /\ \A j \in Tasks(i) : Cardinality(Running(futures[i].tasks[j].sub)) <= max_workers
        /\ Cardinality(Leaves(i)) <= max_workers * max_workers

\* a page's pool is full: max_workers link checks run and a further link waits
C16_Witness ==
    \E i \in Queries : \E j \in Tasks(i) : \E k \in Checks(i, j) :
        /\ Cardinality(Running(futures[i].tasks[j].sub)) = max_workers
        /\ futures[i].tasks[j].sub[k].st = "pending"

\* the pool of queries is full and a query waits
C16_QueriesPoolFull ==
    /\ Cardinality(Running(futures)) = max_workers
    /\ \E i \in Queries : futures[i].st = "queued"

\* the pool of a query's URLs is full and a URL waits
C16_UrlPoolFull ==
    \E i \in Queries : \E j \in Tasks(i) :
        /\ Cardinality(Running(futures[i].tasks)) = max_workers
        /\ futures[i].tasks[j].st = "pending"

\* C17: a search-result URL's task ends only out of the sleep, whatever
\* its outcome, and a sleeping task still occupies its worker: a further
\* URL starts only while fewer than max_workers tasks are processing or
\* sleeping.
C17_SleepFollowsEveryUrl ==
    [][\A i \in Queries : \A j \in Tasks(i) :
          /\ (futures[i].tasks[j].st # "done" /\ futures'[i].tasks[j].st = "done")
                 => futures[i].tasks[j].st = "sleep"
          /\ (futures[i].tasks[j].st = "pending" /\ futures'[i].tasks[j].st # "pending")
                 => Cardinality({h \in Tasks(i) :
                                    futures[i].tasks[h].st \notin {"pending", "done"}})
                        < max_workers]_vars

\* a query whose URLs ended in every way: a check that raised, a fetch that
\* raised, a page whose links were checked, and a URL that was inserted
C17_Witness ==
    \E i \in Queries : \E j, h, g, f \in Tasks(i) :
        /\ AllDone(futures[i].tasks)
        /\ endswith(futures[i].tasks[j].url, ".pdf") /\ futures[i].tasks[j].raised
        /\ ~endswith(futures[i].tasks[h].url, ".pdf") /\ futures[i].tasks[h].raised
        /\ futures[i].tasks[g].sub # <<>>
        /\ endswith(futures[i].tasks[f].url, ".pdf")
        /\ futures[i].tasks[f].url \in futures[i].pdf_links

\* C18: a run that passed argument validation reaches the end of run(),
\* with every query returned and the lock free; a held lock is always
\* released; the report file is written by one step only, the one that
\* ends the run.
C18_TerminatesWithoutDeadlock ==
    /\ (main_pc = "collect") ~> HandedOff
    /\ (lock # None) ~> (lock = None)
    /\ [](HandedOff => lock = None /\ \A i \in Queries : futures[i].st = "returned")
    /\ [][report' # report => main_pc = "collect" /\ HandedOff']_vars

\* a run ended after several queries contended for the lock and a page's
\* links were checked in a nested pool
C18_Witness ==
    /\ main_pc = "done"
    /\ Len(futures) >= 2
    /\ report # NoFile
    /\ \E i \in Queries : \E j \in Tasks(i) :
        /\ Len(futures[i].tasks[j].sub) >= 2
        /\ Cardinality(futures[i].pdf_links) >= 2

\* the URLs that the workers of query i process
UrlsOf(i) ==
    UNION {{futures[i].tasks[j].url} \cup {futures[i].tasks[j].sub[k].url : k \in Checks(i, j)}
           : j \in Tasks(i)}

\* C19: the result set of a query starts empty and holds only URLs that
\* the query's own workers processed; a step changes the set of at most
\* one query, the query of the worker that holds the lock, and leaves the
\* set of every other query as it was.
C19_QueryIsolation ==
    /\ [](\A i \in Queries :
            /\ futures[i].st = "queued" => futures[i].pdf_links = {}
            /\ futures[i].pdf_links \subseteq UrlsOf(i)
            /\ futures[i].pdf_links \subseteq Verified(queries[i][2]))
    /\ [][\A b \in Queries :
            futures'[b].pdf_links # futures[b].pdf_links
                => /\ lock # None /\ lock[1] = b
                   /\ \A a \in Queries \ {b} : futures'[a].pdf_links = futures[a].pdf_links]_vars

\* two queries run at once; one has inserted a URL, the set of the other,
\* whose workers have started, is still empty
C19_Witness ==
    \E a, b \in Queries :
        /\ a # b
        /\ futures[a].st = "dispatch" /\ futures[b].st = "dispatch"
        /\ futures[a].pdf_links # {}
        /\ futures[b].pdf_links = {}
        /\ \E j \in Tasks(b) : futures[b].tasks[j].st # "pending"

\* C20: every member of every query's result set ends in ".pdf", and no
\* step removes a member from a result set.
C20_ResultSetShape ==
    /\ [](\A i \in Queries : \A u \in futures[i].pdf_links : endswith(u, ".pdf"))
    /\ [][\A i \in Queries : futures[i].pdf_links \subseteq futures'[i].pdf_links]_vars

\* a result set holds a search result ending in .pdf and a URL that was
\* resolved from a relative href of a fetched page
C20_Witness ==
    \E i \in Queries : \E j, h \in Tasks(i) : \E k \in Checks(i, j) :
        /\ futures[i].tasks[j].sub[k].url \in futures[i].pdf_links
        /\ futures[i].tasks[j].sub[k].url \notin Range(find_all_href(futures[i].tasks[j].url).hrefs)
        /\ futures[i].tasks[j].sub[k].url # futures[i].tasks[h].url
        /\ endswith(futures[i].tasks[h].url, ".pdf")
        /\ futures[i].tasks[h].url \in futures[i].pdf_links
====
